---- MODULE Spec2Model ----
(***************************************************************************)
(* Model of the ReAct agent of simple-agentic-ai-app-react/src/ai-agent.ts *)
(*                                                                         *)
(* A string is a sequence of tokens.  The four line prefixes the parser    *)
(* looks for, the space and the newline are tokens of their own; every     *)
(* other token stands for a piece of text that neither starts nor ends     *)
(* with white space and holds no newline and no prefix.  String            *)
(* concatenation is \o.  An optional value (undefined | string) is <<>>    *)
(* (undefined) or <<s>>.                                                   *)
(***************************************************************************)
EXTENDS Integers, Sequences, FiniteSets, TLC

VARIABLES
    maxIterations,  \* ReactAgent.maxIterations
    pc,             \* where the turn (or the parser harness) stands
    input,          \* invoke's parameter
    scratchpad,     \* invoke's local scratchpad
    finalAnswer,    \* invoke's local finalAnswer
    iteration,      \* invoke's loop counter
    prompt,         \* the prompt of the last completion call
    response,       \* the last completion text
    step,           \* the AgentStep parsed last
    llmCalls,       \* completion calls made in this turn
    dispatches,     \* executeTool calls of this turn: <<toolName, input>>
    toolCalls,      \* tool.func calls of this turn: <<toolName, input>>
    output,         \* what invoke returned: <<>> or <<string>>
    script,         \* the stubbed completion client's responses (<<>>: no stub)
    pending,        \* the asynchronous operations started and not yet settled
    failure,        \* what invoke threw: <<>> or <<error>>
    net,            \* OllamaClient: generate calls, requests sent, request in flight
    chat,           \* main and AgentChat.start: position, line read, last print
    toolRun,        \* a tool function applied on its own: name, input, result
    twice           \* one input given to invoke twice: the runs and what they met

vars == <<maxIterations, pc, input, scratchpad, finalAnswer, iteration, prompt,
          response, step, llmCalls, dispatches, toolCalls, output, script,
          pending, failure, net, chat, toolRun, twice>>

---------------------------------------------------------------------------
(* Bounds *)

MaxIter == 3
MaxTextLen == 5
MaxExprLen == 4

---------------------------------------------------------------------------
(* Tokens and strings *)

TH == "Thought:"
AC == "Action:"
AI == "Action Input:"
FA == "Final Answer:"
SP == " "
NL == "\n"
OBS == "Observation:"

IsSpace(c) == c \in {SP, NL}

RECURSIVE TrimStart(_)
TrimStart(s) ==
    IF s = <<>> THEN <<>>
    ELSE IF IsSpace(Head(s)) THEN TrimStart(Tail(s)) ELSE s

RECURSIVE TrimEnd(_)
TrimEnd(s) ==
    IF s = <<>> THEN <<>>
    ELSE IF IsSpace(s[Len(s)]) THEN TrimEnd(SubSeq(s, 1, Len(s) - 1)) ELSE s

Trim(s) == TrimEnd(TrimStart(s))

RECURSIVE SplitLines(_)
SplitLines(s) ==
    IF \A i \in 1..Len(s) : s[i] # NL THEN <<s>>
    ELSE LET i == CHOOSE j \in 1..Len(s) :
                      s[j] = NL /\ \A k \in 1..(j - 1) : s[k] # NL
         IN  <<SubSeq(s, 1, i - 1)>> \o SplitLines(SubSeq(s, i + 1, Len(s)))

RECURSIVE MapTrim(_)
MapTrim(ls) == IF ls = <<>> THEN <<>> ELSE <<Trim(Head(ls))>> \o MapTrim(Tail(ls))

RECURSIVE FilterNonEmpty(_)
FilterNonEmpty(ls) ==
    IF ls = <<>> THEN <<>>
    ELSE IF Head(ls) = <<>> THEN FilterNonEmpty(Tail(ls))
    ELSE <<Head(ls)>> \o FilterNonEmpty(Tail(ls))

StartsWith(line, p) == Len(line) >= 1 /\ line[1] = p

AfterPrefix(line) == SubSeq(line, 2, Len(line))

Includes(s, t) == \E i \in 1..Len(s) : s[i] = t

RECURSIVE Join(_, _)
Join(ss, sep) ==
    IF ss = <<>> THEN <<>>
    ELSE IF Len(ss) = 1 THEN Head(ss)
    ELSE Head(ss) \o sep \o Join(Tail(ss), sep)

---------------------------------------------------------------------------
(* The tools *)

Tools == << [name |-> <<"get_time">>,
             description |-> <<"Get the current date and time">>],
            [name |-> <<"calculator">>,
             description |-> <<"Calculate simple math expressions like '2 + 2' or '10 * 5'">>],
            [name |-> <<"weather">>,
             description |-> <<"Get weather information for a city">>] >>

ToolNames == [i \in 1..Len(Tools) |-> Tools[i].name]

ToolNameList == Join(ToolNames, <<", ">>)

ToolDescriptions ==
    Join([i \in 1..Len(Tools) |-> Tools[i].name \o <<": ">> \o Tools[i].description],
         <<NL>>)

FindTool(toolName) == \E i \in 1..Len(Tools) : Tools[i].name = toolName

\* a not-found message that names neither the tool nor the registry
NotFoundObservationBare(toolName) == <<"Error: Tool not found">>

NotFoundObservation(toolName) ==
    <<"Error: Tool '">> \o toolName \o <<"' not found. Available tools: ">>
        \o ToolNameList

\* an error message that drops the tool's name
ToolErrorObservationNoName(toolName, error) == <<"Error executing tool: ">> \o error

ToolErrorObservation(toolName, error) ==
    <<"Error executing tool '">> \o toolName \o <<"': ">> \o error

---------------------------------------------------------------------------
(* ReactAgent.createPrompt and ReactAgent.parseAgentResponse *)

createPrompt(inp, pad) ==
    <<"You are a helpful assistant with access to tools.", NL, NL,
      "You have access to the following tools:", NL>>
    \o ToolDescriptions
    \o <<NL, NL, "Use the following format: ... should be one of [">>
    \o ToolNameList
    \o <<"] ... Begin!", NL, NL, "Question: ">> \o inp \o <<NL, TH, SP>> \o pad

EmptyStep == [thought |-> <<>>, action |-> <<>>, actionInput |-> <<>>,
              observation |-> <<>>]

ResponseLines(resp) == FilterNonEmpty(MapTrim(SplitLines(resp)))

\* the scan without its break: lines after a Final Answer line still count
RECURSIVE ParseLinesNoBreak(_, _)
ParseLinesNoBreak(lines, st) ==
    IF lines = <<>> THEN st
    ELSE LET line == Head(lines)
             val  == Trim(AfterPrefix(line))
         IN  ParseLinesNoBreak(Tail(lines),
                 IF StartsWith(line, TH) THEN [st EXCEPT !.thought = val]
                 ELSE IF StartsWith(line, AC) THEN [st EXCEPT !.action = <<val>>]
                 ELSE IF StartsWith(line, AI) THEN [st EXCEPT !.actionInput = <<val>>]
                 ELSE IF StartsWith(line, FA) THEN [st EXCEPT !.observation = <<val>>]
                 ELSE st)

RECURSIVE ParseLines(_, _)
ParseLines(lines, st) ==
    IF lines = <<>> THEN st
    ELSE LET line == Head(lines)
             val  == Trim(AfterPrefix(line))
         IN  IF StartsWith(line, TH)
                 THEN ParseLines(Tail(lines), [st EXCEPT !.thought = val])
             ELSE IF StartsWith(line, AC)
                 THEN ParseLines(Tail(lines), [st EXCEPT !.action = <<val>>])
             ELSE IF StartsWith(line, AI)
                 THEN ParseLines(Tail(lines), [st EXCEPT !.actionInput = <<val>>])
             ELSE IF StartsWith(line, FA)
                 THEN [st EXCEPT !.observation = <<val>>]
             ELSE ParseLines(Tail(lines), st)

parseAgentResponse(resp) == ParseLines(ResponseLines(resp), EmptyStep)

---------------------------------------------------------------------------
(* The loop's own final-answer detection: response.match(/Final Answer:\s*(.+)/) *)

\* the white space that follows position i
RECURSIVE SpaceRun(_, _)
SpaceRun(s, i) ==
    IF i + 1 <= Len(s) /\ IsSpace(s[i + 1]) THEN 1 + SpaceRun(s, i + 1) ELSE 0

\* the longest run of characters other than a newline from position i on
RECURSIVE DotRun(_, _)
DotRun(s, i) ==
    IF i <= Len(s) /\ s[i] # NL THEN 1 + DotRun(s, i + 1) ELSE 0

\* the k's for which \s{k}(.+) matches right after the marker at position i
MatchSkips(s, i) ==
    {k \in 0..SpaceRun(s, i) : i + k + 1 <= Len(s) /\ s[i + k + 1] # NL}

MatchesAt(s, i) == s[i] = FA /\ MatchSkips(s, i) # {}

\* \s* is greedy: the largest k that lets (.+) match
GroupAt(s, i) ==
    LET k == CHOOSE x \in MatchSkips(s, i) : \A y \in MatchSkips(s, i) : y <= x
        b == i + k + 1
    IN  SubSeq(s, b, b + DotRun(s, b) - 1)

\* null is <<>>, a match is <<group 1>>
FinalAnswerMatch(resp) ==
    IF \E i \in 1..Len(resp) : MatchesAt(resp, i)
    THEN LET i == CHOOSE j \in 1..Len(resp) :
                      MatchesAt(resp, j) /\ \A k \in 1..(j - 1) : ~MatchesAt(resp, k)
         IN  <<GroupAt(resp, i)>>
    ELSE <<>>

\* lines 229-235: the loop breaks with this final answer, when there is one
FinalAnswerOf(resp) ==
    IF Includes(resp, FA) /\ FinalAnswerMatch(resp) # <<>>
    THEN <<Trim(FinalAnswerMatch(resp)[1])>>
    ELSE <<>>

---------------------------------------------------------------------------
(* ReactAgent.invoke *)

ExhaustedMessage == <<"I couldn't complete the task within the maximum iterations.">>

\* an off-by-one loop bound
LoopConditionInclusive(it, max) == it <= max

\* line 216: the loop condition
LoopCondition(it, max) == it < max

\* step.action !== undefined: an empty action name passes
ShouldDispatchAnyAction(st) == st.action # <<>> /\ st.actionInput # <<>>

\* step.action && step.actionInput: an empty action input does not pass
ShouldDispatchTruthyInput(st) ==
    st.action # <<>> /\ st.action[1] # <<>> /\ st.actionInput # <<>> /\ st.actionInput[1] # <<>>

\* line 239: step.action && step.actionInput !== undefined
ShouldDispatch(st) ==
    st.action # <<>> /\ st.action[1] # <<>> /\ st.actionInput # <<>>

\* a scratchpad that keeps the model's thought in front of the block
AppendActionWithThought(pad, st, observation) ==
    pad \o st.thought \o <<NL>>
        \o <<AC, SP>> \o st.action[1] \o <<NL>>
        \o <<AI, SP>> \o st.actionInput[1] \o <<NL>>
        \o <<OBS, SP>> \o observation \o <<NL>>
        \o <<TH, SP>>

\* lines 257-263
AppendAction(pad, st, observation) ==
    pad \o <<"I", " need to use the ">> \o st.action[1] \o <<" tool.", NL>>
        \o <<AC, SP>> \o st.action[1] \o <<NL>>
        \o <<AI, SP>> \o st.actionInput[1] \o <<NL>>
        \o <<OBS, SP>> \o observation \o <<NL>>
        \o <<TH, SP>>

\* a scratchpad that takes the thought without ending its line
AppendThoughtNoNewline(pad, st) == pad \o st.thought

\* line 266
AppendThought(pad, st) == pad \o st.thought \o <<NL>>

\* lines 270-275
ReturnedOutput(fa) == IF fa = <<>> THEN ExhaustedMessage ELSE fa

Inputs == {<<"What time is it?">>, <<"Calculate 15 * 23">>}

ToolResults == {<<"345">>}

ToolErrors == {<<"Error: boom">>}

\* the completions of the loop's specifications: at most one line of each kind,
\* in the order of the prompt's format
OpeningLines == {<<>>, <<TH, SP, "x">>, <<"x">>}

ActionLines == {<<>>, <<AC, SP, "calculator">>, <<AC, SP, "nope">>, <<AC>>}

ActionInputLines == {<<>>, <<AI, SP, "1">>, <<AI>>}

ClosingLines == {<<>>, <<FA, SP, "y">>, <<FA>>, <<FA, SP>>, <<TH, SP, FA, SP, "y">>}

Responses ==
    { Join(SelectSeq(<<l1, l2, l3, l4>>, LAMBDA l : l # <<>>), <<NL>>) :
        l1 \in OpeningLines, l2 \in ActionLines, l3 \in ActionInputLines,
        l4 \in ClosingLines }

\* what a client other than OllamaClient may throw
ClientErrors == {<<"Error: client failed">>}

\* an awaited operation settles: its first entry leaves the outstanding ones
RECURSIVE Settle(_, _)
Settle(ops, op) ==
    IF ops = <<>> THEN <<>>
    ELSE IF Head(ops) = op THEN Tail(ops)
    ELSE <<Head(ops)>> \o Settle(Tail(ops), op)

\* a scratchpad that outlives the turn
InitialScratchpadKept(previous) == previous

\* line 209: let scratchpad = ""
InitialScratchpad(previous) == <<>>

\* a tool call that invoke would not wait for
AfterToolCallNotAwaited == "loop"

\* lines 246-249: invoke awaits executeTool, which awaits the tool's function
AfterToolCall == "awaitTool"

\* no generate call made, no request sent, none in flight, none settled
NoNet == [calls |-> 0, sent |-> 0, attempt |-> 0, inFlight |-> FALSE, settled |-> <<>>]

\* the agent running without main's shell
NoChat == [at |-> "none", line |-> <<>>, printed |-> <<>>]

\* no tool function applied on its own
NoToolRun == [name |-> <<>>, arg |-> <<>>, result |-> <<>>, evaluated |-> FALSE]

NoRun == [prompts |-> <<>>, toolCalls |-> <<>>, output |-> <<>>, failure |-> <<>>]

\* invoke not yet called by the caller that calls it twice
NoTwice == [run |-> 0, completions |-> {}, observations |-> {}, prompts |-> <<>>,
            first |-> NoRun]

\* invoke(input), lines 208-210; the shell starts a turn only when none is running
Invoke(inp) ==
    /\ pc \in {"idle", "returned", "thrown"}
    /\ input' = inp
    /\ scratchpad' = InitialScratchpad(scratchpad)
    /\ finalAnswer' = <<>>
    /\ iteration' = 0
    /\ prompt' = <<>>
    /\ response' = <<>>
    /\ step' = EmptyStep
    /\ llmCalls' = 0
    /\ dispatches' = <<>>
    /\ toolCalls' = <<>>
    /\ output' = <<>>
    /\ failure' = <<>>
    /\ pc' = "loop"
    /\ UNCHANGED <<maxIterations, script, pending, net, chat, toolRun, twice>>

\* lines 216-222: the loop goes on and awaits the completion
CallLLM ==
    /\ pc = "loop"
    /\ LoopCondition(iteration, maxIterations)
    /\ prompt' = createPrompt(input, scratchpad)
    /\ llmCalls' = llmCalls + 1
    /\ response' = <<>>
    /\ step' = EmptyStep
    /\ pending' = Append(pending, "generate")
    /\ pc' = "awaitLLM"
    /\ UNCHANGED <<maxIterations, input, scratchpad, finalAnswer, iteration,
                   dispatches, toolCalls, output, script, failure, chat, toolRun, twice>>

\* line 216: the loop ends with the iterations used up
LoopExit ==
    /\ pc = "loop"
    /\ ~LoopCondition(iteration, maxIterations)
    /\ pc' = "afterLoop"
    /\ UNCHANGED <<maxIterations, input, scratchpad, finalAnswer, iteration, prompt,
                   response, step, llmCalls, dispatches, toolCalls, output, script,
                   pending, failure, net, chat, toolRun, twice>>

\* lines 222-267, up to the next await: the completion r arrives
LLMReturn(r) ==
    /\ pc = "awaitLLM"
    /\ response' = r
    /\ LET fa == FinalAnswerOf(r)
           st == parseAgentResponse(r)
       IN  IF fa # <<>>
           THEN /\ finalAnswer' = fa[1]
                /\ pc' = "afterLoop"
                /\ pending' = Settle(pending, "generate")
                /\ UNCHANGED <<step, scratchpad, iteration, dispatches, toolCalls>>
           ELSE IF ShouldDispatch(st)
           THEN /\ dispatches' = Append(dispatches, <<st.action[1], st.actionInput[1]>>)
                /\ IF FindTool(st.action[1])
                   THEN /\ toolCalls' =
                               Append(toolCalls, <<st.action[1], st.actionInput[1]>>)
                        /\ step' = st
                        /\ pending' = Append(Settle(pending, "generate"), "tool")
                        /\ pc' = AfterToolCall
                        /\ UNCHANGED <<scratchpad, iteration>>
                   ELSE LET observation == NotFoundObservation(st.action[1])
                        IN  /\ step' = [st EXCEPT !.observation = <<observation>>]
                            /\ scratchpad' = AppendAction(scratchpad, st, observation)
                            /\ iteration' = iteration + 1
                            /\ pc' = "loop"
                            /\ UNCHANGED toolCalls
                            /\ pending' = Settle(pending, "generate")
                /\ UNCHANGED finalAnswer
           ELSE /\ step' = st
                /\ scratchpad' = AppendThought(scratchpad, st)
                /\ iteration' = iteration + 1
                /\ pc' = "loop"
                /\ pending' = Settle(pending, "generate")
                /\ UNCHANGED <<finalAnswer, dispatches, toolCalls>>
    /\ UNCHANGED <<maxIterations, input, prompt, llmCalls, output, script,
                   failure, chat, toolRun, twice>>

\* lines 222-229: generate throws err, or line 229 does on a completion that is
\* no string: invoke throws err
LLMFail(err) ==
    /\ pc = "awaitLLM"
    /\ failure' = <<err>>
    /\ pending' = Settle(pending, "generate")
    /\ pc' = "thrown"
    /\ UNCHANGED <<maxIterations, input, scratchpad, finalAnswer, iteration, prompt,
                   response, step, llmCalls, dispatches, toolCalls, output, script,
                   chat, toolRun, twice>>

\* lines 202, 250-263: the tool's function returns res
ToolReturn(res) ==
    /\ pc = "awaitTool"
    /\ step' = [step EXCEPT !.observation = <<res>>]
    /\ scratchpad' = AppendAction(scratchpad, step, res)
    /\ iteration' = iteration + 1
    /\ pending' = Settle(pending, "tool")
    /\ pc' = "loop"
    /\ UNCHANGED <<maxIterations, input, finalAnswer, prompt, response, llmCalls,
                   dispatches, toolCalls, output, script, failure, net, chat, toolRun, twice>>

\* lines 203-205, 250-263: the tool's function throws or rejects with err
ToolThrow(err) ==
    /\ pc = "awaitTool"
    /\ LET observation == ToolErrorObservation(step.action[1], err)
       IN  /\ step' = [step EXCEPT !.observation = <<observation>>]
           /\ scratchpad' = AppendAction(scratchpad, step, observation)
    /\ iteration' = iteration + 1
    /\ pending' = Settle(pending, "tool")
    /\ pc' = "loop"
    /\ UNCHANGED <<maxIterations, input, finalAnswer, prompt, response, llmCalls,
                   dispatches, toolCalls, output, script, failure, net, chat, toolRun, twice>>

\* lines 270-275
Return ==
    /\ pc = "afterLoop"
    /\ output' = <<ReturnedOutput(finalAnswer)>>
    /\ pc' = "returned"
    /\ UNCHANGED <<maxIterations, input, scratchpad, finalAnswer, iteration, prompt,
                   response, step, llmCalls, dispatches, toolCalls, script,
                   pending, failure, net, chat, toolRun, twice>>

InitTurn ==
    /\ maxIterations \in (-1)..MaxIter
    /\ pc = "idle"
    /\ input = <<>>
    /\ scratchpad = <<>>
    /\ finalAnswer = <<>>
    /\ iteration = 0
    /\ prompt = <<>>
    /\ response = <<>>
    /\ step = EmptyStep
    /\ llmCalls = 0
    /\ dispatches = <<>>
    /\ toolCalls = <<>>
    /\ output = <<>>
    /\ pending = <<>>
    /\ failure = <<>>
    /\ net = NoNet
    /\ toolRun = NoToolRun

Init == InitTurn /\ script = <<>> /\ chat = NoChat /\ twice = NoTwice

Next ==
    \/ \E inp \in Inputs : Invoke(inp)
    \/ CallLLM /\ UNCHANGED net
    \/ LoopExit
    \/ \E r \in Responses : LLMReturn(r) /\ UNCHANGED net
    \/ \E err \in ClientErrors : LLMFail(err) /\ UNCHANGED net
    \/ \E res \in ToolResults : ToolReturn(res)
    \/ \E err \in ToolErrors : ToolThrow(err)
    \/ Return

Spec == Init /\ [][Next]_vars

---------------------------------------------------------------------------
(* A stubbed completion client: it answers the turn's i-th call with       *)
(* script[i].  Only the last response of a script may be a final answer.   *)

StubAction(name, inp) == <<TH, SP, "need a tool", NL, AC, SP>> \o name \o <<NL, AI, SP>> \o inp

StubFinal(answer) == <<TH, SP, "done", NL, FA, SP>> \o answer

StubCalls ==
    { <<<<"calculator">>, <<"15 * 23">>>>, <<<<"calculator">>, <<>>>>,
      <<<<"nope">>, <<"15 * 23">>>>, <<<<>>, <<"15 * 23">>>> }

StubAnswers == {<<"345">>, <<>>}

PlainResponses == {<<"hello">>, <<"hello", NL, SP, "there">>}

StubMiddle == {StubAction(c[1], c[2]) : c \in StubCalls} \cup PlainResponses

StubLast == StubMiddle \cup {StubFinal(a) : a \in StubAnswers}

StubScripts ==
    UNION { {s \in [1..n -> StubLast] : \A i \in 1..(n - 1) : s[i] \in StubMiddle} :
              n \in 1..MaxIter }

InitStub == InitTurn /\ script \in StubScripts /\ chat = NoChat /\ twice = NoTwice

NextStub ==
    \/ pc = "idle" /\ \E inp \in Inputs : Invoke(inp)
    \/ CallLLM /\ UNCHANGED net
    \/ LoopExit
    \/ llmCalls \in 1..Len(script) /\ LLMReturn(script[llmCalls]) /\ UNCHANGED net
    \/ \E res \in ToolResults : ToolReturn(res)
    \/ \E err \in ToolErrors : ToolThrow(err)
    \/ Return

SpecStub == InitStub /\ [][NextStub]_vars

---------------------------------------------------------------------------
(* The two readings of a completion text, applied to every short text:     *)
(* step is what parseAgentResponse gives, output what the loop's match     *)
(* extracts.                                                               *)

TextAlphabet == {TH, AC, AI, FA, SP, NL, "x", "y"}

ExampleText == <<TH, SP, "X", NL, AC, SP, "foo", NL, AI, SP, "bar">>

Texts == UNION {[1..n -> TextAlphabet] : n \in 0..MaxTextLen} \cup {ExampleText}

InitParse ==
    /\ maxIterations = 0
    /\ pc = "text"
    /\ response \in Texts
    /\ input = <<>>
    /\ scratchpad = <<>>
    /\ finalAnswer = <<>>
    /\ iteration = 0
    /\ prompt = <<>>
    /\ step = EmptyStep
    /\ llmCalls = 0
    /\ dispatches = <<>>
    /\ toolCalls = <<>>
    /\ output = <<>>
    /\ script = <<>>
    /\ pending = <<>>
    /\ failure = <<>>
    /\ net = NoNet
    /\ chat = NoChat
    /\ toolRun = NoToolRun
    /\ twice = NoTwice

ParseText ==
    /\ pc = "text"
    /\ step' = parseAgentResponse(response)
    /\ output' = FinalAnswerOf(response)
    /\ pc' = "parsed"
    /\ UNCHANGED <<maxIterations, input, scratchpad, finalAnswer, iteration, prompt,
                   response, llmCalls, dispatches, toolCalls, script,
                   pending, failure, net, chat, toolRun, twice>>

NextParse == ParseText

SpecParse == InitParse /\ [][NextParse]_vars

---------------------------------------------------------------------------
(* The functions of the registered tools, lines 79-104.  A calculator      *)
(* expression is spelled character by character; a token outside           *)
(* AllowedChars stands for text holding a character outside them.  The     *)
(* expressions of the model hold no "/", no "." and no "**": on the rest   *)
(* JavaScript's numbers are exact integers.                                *)

DigitChars == <<"0", "1", "2", "3", "4", "5", "6", "7", "8", "9">>

IsDigit(c) == \E i \in 1..10 : DigitChars[i] = c

DigitValue(c) == (CHOOSE i \in 1..10 : DigitChars[i] = c) - 1

\* line 86
AllowedChars ==
    {DigitChars[i] : i \in 1..10} \cup {"+", "-", "*", "/", ".", "(", ")", SP}

\* a rejection that does not name its cause
InvalidExpressionError == <<"Error: ", "Invalid expression">>

\* line 94
InvalidCharactersError == <<"Error: ", "Invalid characters", " in expression">>

\* line 97
CouldNotEvaluateError == <<"Error: ", "Could not evaluate", " expression">>

\* length of the run of digits s starts with
RECURSIVE DigitRun(_)
DigitRun(s) ==
    IF s # <<>> /\ IsDigit(Head(s)) THEN 1 + DigitRun(Tail(s)) ELSE 0

Lexeme(kind, text) == [kind |-> kind, text |-> text]

\* the JavaScript tokens of an expression: numbers, ++ and -- before + and -
RECURSIVE Lex(_)
Lex(s) ==
    IF s = <<>> THEN <<>>
    ELSE LET c == Head(s)
         IN  CASE c = SP -> Lex(Tail(s))
               [] IsDigit(c) ->
                    LET n == DigitRun(s)
                    IN  <<Lexeme("num", SubSeq(s, 1, n))>> \o Lex(SubSeq(s, n + 1, Len(s)))
               [] c \in {"+", "-"} ->
                    IF Len(s) >= 2 /\ s[2] = c
                    THEN <<Lexeme("update", <<c, c>>)>> \o Lex(SubSeq(s, 3, Len(s)))
                    ELSE <<Lexeme(c, <<c>>)>> \o Lex(Tail(s))
               [] c = "*" /\ ~(Len(s) >= 2 /\ s[2] = "*") ->
                    <<Lexeme(c, <<c>>)>> \o Lex(Tail(s))
               [] c \in {"(", ")"} -> <<Lexeme(c, <<c>>)>> \o Lex(Tail(s))

RECURSIVE DecimalValue(_)
DecimalValue(digits) ==
    IF digits = <<>> THEN 0
    ELSE 10 * DecimalValue(SubSeq(digits, 1, Len(digits) - 1))
           + DigitValue(digits[Len(digits)])

\* strict mode has no literal with a leading zero but 0 itself
ValidLiteral(digits) == Len(digits) = 1 \/ Head(digits) # "0"

Parsed(val, rest) == [ok |-> TRUE, val |-> val, rest |-> rest]

NotParsed == [ok |-> FALSE, val |-> 0, rest |-> <<>>]

NextIs(ls, kind) == ls # <<>> /\ Head(ls).kind = kind

RECURSIVE ParseAdditive(_), ParseAdditiveRest(_, _), ParseMultiplicative(_),
          ParseMultiplicativeRest(_, _), ParseUnary(_), ParsePrimary(_)

\* a literal or a parenthesized expression
ParsePrimary(ls) ==
    IF NextIs(ls, "num")
    THEN IF ValidLiteral(Head(ls).text)
         THEN Parsed(DecimalValue(Head(ls).text), Tail(ls))
         ELSE NotParsed
    ELSE IF NextIs(ls, "(")
    THEN LET e == ParseAdditive(Tail(ls))
         IN  IF e.ok /\ NextIs(e.rest, ")") THEN Parsed(e.val, Tail(e.rest)) ELSE NotParsed
    ELSE NotParsed

\* unary + and -
ParseUnary(ls) ==
    IF NextIs(ls, "+") \/ NextIs(ls, "-")
    THEN LET u == ParseUnary(Tail(ls))
         IN  IF u.ok
             THEN Parsed(IF Head(ls).kind = "-" THEN 0 - u.val ELSE u.val, u.rest)
             ELSE NotParsed
    ELSE ParsePrimary(ls)

\* left-associative *
ParseMultiplicativeRest(left, ls) ==
    IF NextIs(ls, "*")
    THEN LET u == ParseUnary(Tail(ls))
         IN  IF u.ok THEN ParseMultiplicativeRest(left * u.val, u.rest) ELSE NotParsed
    ELSE Parsed(left, ls)

\* a parser that knows no product
ParseMultiplicativeNoProduct(ls) == ParseUnary(ls)

ParseMultiplicative(ls) ==
    LET u == ParseUnary(ls)
    IN  IF u.ok THEN ParseMultiplicativeRest(u.val, u.rest) ELSE NotParsed

\* left-associative + and -
ParseAdditiveRest(left, ls) ==
    IF NextIs(ls, "+") \/ NextIs(ls, "-")
    THEN LET m == ParseMultiplicative(Tail(ls))
         IN  IF m.ok
             THEN ParseAdditiveRest(IF Head(ls).kind = "-" THEN left - m.val
                                    ELSE left + m.val, m.rest)
             ELSE NotParsed
    ELSE Parsed(left, ls)

ParseAdditive(ls) ==
    LET m == ParseMultiplicative(ls)
    IN  IF m.ok THEN ParseAdditiveRest(m.val, m.rest) ELSE NotParsed

\* line 91: Function(`"use strict"; return (<expression>)`)(): the value, or the
\* SyntaxError or TypeError (a call of a number) it throws
Evaluate(expression) ==
    LET e == ParseAdditive(Lex(expression))
    IN  IF e.ok /\ e.rest = <<>> THEN [threw |-> FALSE, value |-> e.val]
        ELSE [threw |-> TRUE, value |-> 0]

\* String(n) of a whole number
RECURSIVE NaturalString(_)
NaturalString(n) ==
    IF n < 10 THEN <<DigitChars[n + 1]>>
    ELSE NaturalString(n \div 10) \o <<DigitChars[(n % 10) + 1]>>

NumberString(n) == IF n < 0 THEN <<"-">> \o NaturalString(0 - n) ELSE NaturalString(n)

\* line 89
AllAllowed(expression) == \A i \in 1..Len(expression) : expression[i] \in AllowedChars

\* simpleCalculator, lines 83-99: the string returned, and whether the expression
\* was handed to Function
simpleCalculator(expression) ==
    LET cleanExpression == Trim(expression)
    IN  IF AllAllowed(cleanExpression)
        THEN LET result == Evaluate(cleanExpression)
             IN  [returned |-> IF result.threw THEN CouldNotEvaluateError
                               ELSE NumberString(result.value),
                  evaluated |-> TRUE]
        ELSE [returned |-> InvalidCharactersError, evaluated |-> FALSE]

\* line 101: the default of the parameter, taken when the argument is undefined
DefaultCity == <<"New York">>

\* getWeatherInfo, lines 101-104 (the degree sign left out); args is the argument
\* list of the call
getWeatherInfo(args) ==
    LET city == IF args = <<>> THEN DefaultCity ELSE args[1]
    IN  <<"The weather in ">> \o city \o <<" is sunny and 72", "F (this is mock data)">>

\* getCurrentTime, lines 79-81: the clock's reading as a local date and time
Times == {<<"1/15/2024, 2:30:25 PM">>, <<"1/15/2024, 2:30:26 PM">>}

\* line 202: tool.func(input) of the registered tools: the results it may have
ToolFunction(name, arg) ==
    CASE name = <<"get_time">> -> Times
      [] name = <<"calculator">> -> {simpleCalculator(arg).returned}
      [] name = <<"weather">> -> {getWeatherInfo(<<arg>>)}

---------------------------------------------------------------------------
(* OllamaClient.generate, lines 46-75.  A reply is what fetch settles      *)
(* with; a JavaScript value is a record of its type and, for a string, its *)
(* text.                                                                   *)

StringValue(s) == [type |-> "string", val |-> s]

UndefinedValue == [type |-> "undefined", val |-> <<>>]

NumberValue == [type |-> "number", val |-> <<"4", "2">>]

Unreachable == [reachable |-> FALSE, status |-> 0, body |-> "none", response |-> UndefinedValue]

\* a reply with a status; body is "text" (no JSON), "null" or "object", response
\* the object's response field
HttpReply(status, body, resp) ==
    [reachable |-> TRUE, status |-> status, body |-> body, response |-> resp]

\* Response.ok
Ok(reply) == reply.status \in 200..299

Thrown(err) == [threw |-> TRUE, value |-> UndefinedValue, error |-> err]

Returned(value) == [threw |-> FALSE, value |-> value, error |-> <<>>]

\* lines 56-74: what generate settles with when fetch settles with reply
generate(reply) ==
    IF ~reply.reachable THEN Thrown(<<"TypeError: ", "fetch failed">>)
    ELSE IF ~Ok(reply)
    THEN Thrown(<<"Error: ", "HTTP error! status: ">> \o NumberString(reply.status))
    ELSE IF reply.body = "text" THEN Thrown(<<"SyntaxError: ", "Unexpected token">>)
    ELSE IF reply.body = "null"
    THEN Thrown(<<"TypeError: ", "Cannot read properties of null">>)
    ELSE Returned(reply.response)

\* a client that sends a failed request once more
MayRetryOnce(attempt) == attempt < 2

\* lines 71-74: the catch block throws the error on, whatever the attempt
MayRetry(attempt) == FALSE

\* lines 56-63: generate is called and sends its request
Request(n) ==
    [calls |-> n.calls + 1, sent |-> n.sent + 1, attempt |-> 1, inFlight |-> TRUE,
     settled |-> <<>>]

Resend(n) == [n EXCEPT !.sent = @ + 1, !.attempt = @ + 1]

\* the call is over: the reply fetch settled with, and what generate made of it
Settled(n, reply, result) ==
    [n EXCEPT !.inFlight = FALSE, !.settled = <<[reply |-> reply, result |-> result]>>]

\* line 229: response.includes on a value that is no string
NotAStringError(value) ==
    IF value.type = "undefined"
    THEN <<"TypeError: ", "Cannot read properties of undefined (reading 'includes')">>
    ELSE <<"TypeError: ", "response.includes is not a function">>

---------------------------------------------------------------------------
(* main and AgentChat.start, lines 291-351: the agent of main, with the    *)
(* registered tools and OllamaClient, driven by the lines typed.           *)

\* line 347
MainMaxIterations == 3

ToLowerCaseToken(t) ==
    CASE t \in {"QUIT", "Quit"} -> "quit"
      [] t = "EXIT" -> "exit"
      [] t = "Bye" -> "bye"
      [] OTHER -> t

ToLowerCase(s) == [i \in 1..Len(s) |-> ToLowerCaseToken(s[i])]

ExitWords == {<<"quit">>, <<"exit">>, <<"bye">>}

\* lines 300-304
IsExitLine(line) == Trim(ToLowerCase(line)) \in ExitWords

\* a shell that trims what it passes on
InvokeArgumentTrimmed(line) == Trim(line)

\* line 310: invoke(userInput)
InvokeArgument(line) == line

ChatLines ==
    { <<"quit">>, <<SP, "EXIT">>, <<"Bye", SP>>,
      <<>>, <<SP, "What time is it?", SP>>, <<"quit", SP, "now">> }

ChatResponses ==
    { <<"x">>,
      <<TH, SP, "x", NL, AC, SP, "get_time", NL, AI>>,
      <<AC, SP, "calculator", NL, AI, SP, "1", "5", SP, "*", SP, "2", "3">>,
      <<AC, SP, "calculator", NL, AI, SP, "alert", "(", "1", ")">>,
      <<AC, SP, "weather", NL, AI>>,
      <<AC, SP, "weather", NL, AI, SP, "Paris">>,
      <<TH, SP, "x", NL, FA, SP, "y">> }

Replies ==
    { Unreachable,
      HttpReply(500, "object", StringValue(<<"x">>)),
      HttpReply(200, "text", UndefinedValue),
      HttpReply(200, "null", UndefinedValue),
      HttpReply(200, "object", UndefinedValue),
      HttpReply(200, "object", NumberValue) }
    \cup { HttpReply(200, "object", StringValue(r)) : r \in ChatResponses }

turnVars ==
    <<maxIterations, input, scratchpad, finalAnswer, iteration, prompt, response,
      step, llmCalls, dispatches, toolCalls, output, script, failure>>

AtMain == [at |-> "main", line |-> <<>>, printed |-> <<>>]

ConnectionFailed == <<"Could not connect to Ollama. ", "Error: ">>

Ready == <<"Local Agent Ready! Type 'quit' to exit.">>

Goodbye == <<"Goodbye!">>

\* lines 334-336: main tests the connection
Probe ==
    /\ chat.at = "main"
    /\ chat' = [chat EXCEPT !.at = "probing"]
    /\ pending' = Append(pending, "generate")
    /\ net' = Request(net)
    /\ UNCHANGED <<pc, turnVars, toolRun, twice>>

\* a main that starts the shell whatever the probe did
AfterProbeFailureStarts == "asking"

\* lines 338-344: the catch block of main reports the failure and returns
AfterProbeFailure == "exited"

\* lines 336-350: the probe settles; main returns, or creates the agent and the
\* shell, which asks for its first line
ProbeReply(reply) ==
    /\ chat.at = "probing"
    /\ net.inFlight
    /\ LET g == generate(reply)
       IN  IF g.threw /\ MayRetry(net.attempt)
           THEN /\ net' = Resend(net)
                /\ UNCHANGED <<chat, pending>>
           ELSE /\ net' = Settled(net, reply, g)
                /\ pending' = Settle(pending, "generate")
                /\ chat' = IF g.threw
                           THEN [chat EXCEPT !.at = AfterProbeFailure,
                                             !.printed = ConnectionFailed \o g.error]
                           ELSE [chat EXCEPT !.at = "asking", !.printed = Ready]
    /\ UNCHANGED <<pc, turnVars, toolRun, twice>>

\* lines 298-305: a line is read; an exit word ends the shell
ReadLine(line) ==
    /\ chat.at = "asking"
    /\ chat' = IF IsExitLine(line)
               THEN [at |-> "closed", line |-> line, printed |-> Goodbye]
               ELSE [chat EXCEPT !.at = "turn", !.line = line]
    /\ net' = NoNet
    /\ UNCHANGED <<pc, turnVars, pending, toolRun, twice>>

\* line 310: the line goes to invoke
StartTurn ==
    /\ chat.at = "turn"
    /\ pc = "idle"
    /\ Invoke(InvokeArgument(chat.line))

\* lines 222, 56-63: the loop's completion call, and its request
ChatCallLLM == CallLLM /\ net' = Request(net)

\* lines 64-74, 222-267: the request of a completion call settles
ChatReply(reply) ==
    /\ chat.at = "turn"
    /\ pc = "awaitLLM"
    /\ net.inFlight
    /\ LET g == generate(reply)
       IN  IF g.threw /\ MayRetry(net.attempt)
           THEN /\ net' = Resend(net)
                /\ UNCHANGED <<pc, turnVars, pending, chat, toolRun, twice>>
           ELSE /\ net' = Settled(net, reply, g)
                /\ IF g.threw THEN LLMFail(g.error)
                   ELSE IF g.value.type = "string" THEN LLMReturn(g.value.val)
                   ELSE LLMFail(NotAStringError(g.value))

\* line 202: the registered tool's function returns
ChatToolReturn ==
    /\ pc = "awaitTool"
    /\ \E res \in ToolFunction(step.action[1], step.actionInput[1]) : ToolReturn(res)

\* line 311
PrintOutput ==
    /\ chat.at = "turn"
    /\ pc = "returned"
    /\ chat' = [chat EXCEPT !.at = "asking", !.printed = <<"Agent: ">> \o output[1]]
    /\ pc' = "idle"
    /\ UNCHANGED <<turnVars, pending, net, toolRun, twice>>

\* a shell that an error ends
AfterCatchClosed == "closed"

\* lines 297, 312-315: the error is caught inside the loop, which goes on
AfterCatch == "asking"

\* lines 312-314
CatchError ==
    /\ chat.at = "turn"
    /\ pc = "thrown"
    /\ chat' = [chat EXCEPT !.at = AfterCatch, !.printed = <<"Error: ">> \o failure[1]]
    /\ pc' = "idle"
    /\ UNCHANGED <<turnVars, pending, net, toolRun, twice>>

InitChat ==
    /\ InitTurn
    /\ maxIterations = MainMaxIterations
    /\ script = <<>>
    /\ chat = AtMain
    /\ twice = NoTwice

NextChat ==
    \/ Probe
    \/ \E reply \in Replies : ProbeReply(reply)
    \/ \E line \in ChatLines : ReadLine(line)
    \/ StartTurn
    \/ ChatCallLLM
    \/ LoopExit
    \/ \E reply \in Replies : ChatReply(reply)
    \/ ChatToolReturn
    \/ Return
    \/ PrintOutput
    \/ CatchError

SpecChat == InitChat /\ [][NextChat]_vars

---------------------------------------------------------------------------
(* invoke called twice with one input, lines 208-276, by a caller whose    *)
(* completion client is a function of the prompt and whose tools are       *)
(* functions of their input: what a prompt or a tool call met once it      *)
(* meets again.                                                            *)

TwiceResponses ==
    { <<"x">>,
      <<AC, SP, "calculator", NL, AI, SP, "1">>,
      <<AC, SP, "nope", NL, AI, SP, "1">>,
      <<TH, SP, "x", NL, FA, SP, "y">>,
      <<FA>> }

FirstRun == [NoTwice EXCEPT !.run = 1]

\* the prompt was answered before
Known(p) == \E c \in twice.completions : c.prompt = p

Completion(p) == CHOOSE c \in twice.completions : c.prompt = p

\* the tool call was made before
KnownCall(call) == \E o \in twice.observations : o.call = call

Observation(call) == (CHOOSE o \in twice.observations : o.call = call).observation

LastToolCall == toolCalls[Len(toolCalls)]

\* the caller has taken note of the last prompt, completion and observation
Noted ==
    IF pc = "idle" THEN TRUE
    ELSE /\ Len(twice.prompts) = llmCalls
         /\ IF llmCalls = 0 \/ pc = "awaitLLM" THEN TRUE ELSE Known(prompt)
         /\ IF toolCalls = <<>> \/ pc = "awaitTool" THEN TRUE
            ELSE KnownCall(LastToolCall)

\* what the client and the tools did is what they do from now on
Note ==
    /\ ~Noted
    /\ twice' =
         [twice EXCEPT
            !.prompts = IF Len(@) < llmCalls THEN Append(@, prompt) ELSE @,
            !.completions =
                IF llmCalls > 0 /\ pc # "awaitLLM" /\ ~Known(prompt)
                THEN @ \cup {[prompt |-> prompt, threw |-> pc = "thrown",
                              text |-> IF pc = "thrown" THEN failure[1] ELSE response]}
                ELSE @,
            !.observations =
                IF toolCalls # <<>> /\ pc # "awaitTool" /\ ~KnownCall(LastToolCall)
                THEN @ \cup {[call |-> LastToolCall, observation |-> step.observation[1]]}
                ELSE @]
    /\ UNCHANGED <<pc, turnVars, pending, net, chat, toolRun>>

\* line 208: the first call, and the second with the input of the first
TwiceInvoke ==
    /\ pc = "idle"
    /\ \/ twice.run = 1 /\ \E inp \in Inputs : Invoke(inp)
       \/ twice.run = 2 /\ Invoke(input)

TwiceCallLLM == Noted /\ CallLLM /\ UNCHANGED net

TwiceLoopExit == Noted /\ LoopExit

\* line 222: the client answers as it did, if it has seen the prompt
TwiceCompletion ==
    /\ pc = "awaitLLM"
    /\ Noted
    /\ IF Known(prompt)
       THEN IF Completion(prompt).threw THEN LLMFail(Completion(prompt).text)
            ELSE LLMReturn(Completion(prompt).text)
       ELSE \/ \E r \in TwiceResponses : LLMReturn(r)
            \/ \E err \in ClientErrors : LLMFail(err)
    /\ UNCHANGED net

\* line 202: the tool does as it did, if it has been given the input
TwiceTool ==
    /\ pc = "awaitTool"
    /\ Noted
    /\ \/ \E res \in ToolResults : ToolReturn(res)
       \/ \E err \in ToolErrors : ToolThrow(err)
    /\ KnownCall(LastToolCall) => step'.observation = <<Observation(LastToolCall)>>

TwiceReturn == Noted /\ Return

\* the first call is over: the caller keeps what it saw and calls again
Again ==
    /\ pc \in {"returned", "thrown"}
    /\ Noted
    /\ twice.run = 1
    /\ twice' = [twice EXCEPT !.run = 2, !.prompts = <<>>,
                              !.first = [prompts |-> twice.prompts, toolCalls |-> toolCalls,
                                         output |-> output, failure |-> failure]]
    /\ pc' = "idle"
    /\ UNCHANGED <<turnVars, pending, net, chat, toolRun>>

InitTwice == InitTurn /\ script = <<>> /\ chat = NoChat /\ twice = FirstRun

NextTwice ==
    \/ TwiceInvoke
    \/ TwiceCallLLM
    \/ TwiceLoopExit
    \/ TwiceCompletion
    \/ TwiceTool
    \/ TwiceReturn
    \/ Note
    \/ Again

SpecTwice == InitTwice /\ [][NextTwice]_vars

---------------------------------------------------------------------------
(* The registered tools' functions applied to inputs of their own, the     *)
(* way executeTool applies them (line 202): every short calculator         *)
(* expression without "**" over ExprAlphabet, and the spec's examples.     *)

ExprAlphabet == {"0", "2", "+", "-", "*", "(", ")", SP, "a", NL}

ExampleExpressions ==
    { <<"1", "5", SP, "*", SP, "2", "3">>,
      <<"2", SP, "+", SP, "2">>,
      <<"2", "+", "3", "*", "2">>,
      <<"(", "2", "+", "3", ")", "*", "2">>,
      <<"a", "l", "e", "r", "t", "(", "1", ")">> }

NoPower(e) == \A i \in 1..(Len(e) - 1) : ~(e[i] = "*" /\ e[i + 1] = "*")

Expressions ==
    {e \in UNION {[1..n -> ExprAlphabet] : n \in 0..MaxExprLen} : NoPower(e)}
        \cup ExampleExpressions

Cities == {<<>>, <<"Paris">>}

ToolRuns ==
    {[name |-> <<"calculator">>, arg |-> e, result |-> <<>>, evaluated |-> FALSE] :
        e \in Expressions}
    \cup {[name |-> <<"weather">>, arg |-> c, result |-> <<>>, evaluated |-> FALSE] :
            c \in Cities}
    \cup {[name |-> <<"get_time">>, arg |-> <<>>, result |-> <<>>, evaluated |-> FALSE]}

InitTools ==
    /\ maxIterations = 0
    /\ pc = "tool"
    /\ toolRun \in ToolRuns
    /\ response = <<>>
    /\ input = <<>>
    /\ scratchpad = <<>>
    /\ finalAnswer = <<>>
    /\ iteration = 0
    /\ prompt = <<>>
    /\ step = EmptyStep
    /\ llmCalls = 0
    /\ dispatches = <<>>
    /\ toolCalls = <<>>
    /\ output = <<>>
    /\ script = <<>>
    /\ pending = <<>>
    /\ failure = <<>>
    /\ net = NoNet
    /\ chat = NoChat
    /\ twice = NoTwice

\* line 202: tool.func(input)
RunTool ==
    /\ pc = "tool"
    /\ \E res \in ToolFunction(toolRun.name, toolRun.arg) :
          toolRun' = [toolRun EXCEPT
                        !.result = <<res>>,
                        !.evaluated = IF toolRun.name = <<"calculator">>
                                      THEN simpleCalculator(toolRun.arg).evaluated
                                      ELSE FALSE]
    /\ pc' = "ran"
    /\ UNCHANGED <<turnVars, pending, net, chat, twice>>

NextTools == RunTool

SpecTools == InitTools /\ [][NextTools]_vars

---------------------------------------------------------------------------
(* Claims *)

Prefixes == {TH, AC, AI, FA}

NoPrefix(text) == \A i \in 1..Len(text) : text[i] \notin Prefixes

Last(seq) == seq[Len(seq)]

Contains(s, t) == \E i \in 0..(Len(s) - Len(t)) : SubSeq(s, i + 1, i + Len(t)) = t

\* the stub's first n completions hold no recognized prefix
PlainUpTo(n) == Len(script) >= n /\ \A i \in 1..n : NoPrefix(script[i])

\* C1: with maxIterations >= 1 and a client whose completions hold no recognized
\* prefix, the turn makes exactly maxIterations completion calls, dispatches and
\* invokes no tool at any point, and returns the exhaustion message.
C1_PlainCompletionsExhaust ==
    (maxIterations >= 1 /\ PlainUpTo(maxIterations)) =>
        /\ llmCalls <= maxIterations
        /\ dispatches = <<>>
        /\ toolCalls = <<>>
        /\ pc = "returned" =>
              /\ llmCalls = maxIterations
              /\ output = <<<<"I couldn't complete the task within the maximum iterations.">>>>

C1_Witness ==
    /\ pc = "returned"
    /\ maxIterations = 3
    /\ PlainUpTo(3)
    /\ llmCalls = 3
    /\ output = <<ExhaustedMessage>>

\* the text the loop's pattern extracts from a completion ("" when nothing
\* follows the marker)
ExtractedAfterMarker(text) ==
    IF FinalAnswerMatch(text) = <<>> THEN <<>> ELSE Trim(FinalAnswerMatch(text)[1])

\* C2: a completion that holds the final-answer marker anywhere ends the loop in
\* that iteration: no tool is dispatched, no further completion call is made, and
\* the turn returns the text extracted after the marker.
C2_MarkerEndsTurn ==
    [][ /\ (pc = "awaitLLM" /\ pc' # "thrown" /\ Includes(response', FA)) =>
              /\ pc' = "afterLoop"
              /\ dispatches' = dispatches
              /\ toolCalls' = toolCalls
        /\ (pc = "afterLoop" /\ Includes(response, FA)) =>
              /\ pc' = "returned"
              /\ llmCalls' = llmCalls
              /\ output' = <<ExtractedAfterMarker(response)>> ]_vars

\* C3: the exhaustion message is returned only by a turn that made maxIterations
\* completion calls and found no final answer; a turn that stops earlier never
\* returns it.
C3_ExhaustionOnlyWhenExhausted ==
    (pc = "returned" /\ maxIterations >= 0 /\ output = <<ExhaustedMessage>>) =>
        llmCalls = maxIterations

\* the block an iteration that dispatched a tool adds to the scratchpad
ActionBlock(name, inp, obs) ==
    <<"I", " need to use the ">> \o name \o <<" tool.", NL, AC, SP>> \o name
        \o <<NL, AI, SP>> \o inp \o <<NL, OBS, SP>> \o obs \o <<NL, TH, SP>>

RegisteredNames == {<<"get_time">>, <<"calculator">>, <<"weather">>}

\* C4: a dispatch whose action name matches no registered tool does not end the
\* turn and invokes no tool function: its observation holds the attempted name and
\* the comma-separated list of the registered names, the observation is appended to
\* the scratchpad, and the loop goes on to its next iteration.
C4_UnknownToolIsObserved ==
    [][ (Len(dispatches') = Len(dispatches) + 1 /\ Last(dispatches')[1] \notin RegisteredNames) =>
            LET name == Last(dispatches')[1]
                inp  == Last(dispatches')[2]
            IN  /\ pc' = "loop"
                /\ iteration' = iteration + 1
                /\ toolCalls' = toolCalls
                /\ step'.observation # <<>>
                /\ Contains(step'.observation[1], name)
                /\ Contains(step'.observation[1],
                            <<"get_time", ", ", "calculator", ", ", "weather">>)
                /\ scratchpad' = scratchpad \o ActionBlock(name, inp, step'.observation[1])
      ]_vars

C4_Witness ==
    /\ pc = "awaitLLM"
    /\ llmCalls = 2
    /\ dispatches = << <<<<"nope">>, <<"1">>>> >>
    /\ toolCalls = <<>>
    /\ Contains(scratchpad, <<"Error: Tool '", "nope", "' not found. Available tools: ">>)
    /\ Contains(prompt, scratchpad)

\* C5: a tool function that throws or rejects does not end the turn: the failure
\* becomes the observation "Error executing tool '<name>': <error>", which is
\* appended to the scratchpad, and the loop goes on exactly as after a tool that
\* returned.
C5_ToolFailureIsObserved ==
    [][ /\ pc = "awaitTool" =>
              /\ pc' = "loop"
              /\ iteration' = iteration + 1
              /\ step'.observation # <<>>
              /\ scratchpad' = scratchpad \o ActionBlock(Last(toolCalls)[1], Last(toolCalls)[2],
                                                         step'.observation[1])
              /\ UNCHANGED <<maxIterations, input, finalAnswer, llmCalls, dispatches,
                             toolCalls, output>>
        /\ \A err \in ToolErrors :
              ToolThrow(err) =>
                  step'.observation =
                      << <<"Error executing tool '">> \o Last(toolCalls)[1] \o <<"': ">> \o err >>
      ]_vars

C5_Witness ==
    /\ pc = "awaitLLM"
    /\ llmCalls = 2
    /\ toolCalls = << <<<<"calculator">>, <<"1">>>> >>
    /\ Contains(scratchpad,
                <<OBS, SP, "Error executing tool '", "calculator", "': ", "Error: boom", NL>>)
    /\ Contains(prompt, scratchpad)

HasLine(text, p) ==
    \E i \in 1..Len(ResponseLines(text)) : StartsWith(ResponseLines(text)[i], p)

\* C10: a tool is dispatched only for a step whose action is present and not
\* empty and whose actionInput is present (the empty string included), and with
\* that action and input; a completion with no Action Input line, a step with an
\* empty action name and a step taken as the final answer dispatch nothing.
C10_DispatchNeedsActionAndInput ==
    [][ /\ Len(dispatches') = Len(dispatches) + 1 =>
              /\ step'.action # <<>>
              /\ step'.action[1] # <<>>
              /\ step'.actionInput # <<>>
              /\ Last(dispatches') = <<step'.action[1], step'.actionInput[1]>>
              /\ HasLine(response', AC)
              /\ HasLine(response', AI)
              /\ finalAnswer' = <<>>
              /\ pc' \in {"awaitTool", "loop"}
        /\ (pc = "awaitLLM" /\ ~HasLine(response', AI)) => dispatches' = dispatches
        /\ (pc = "awaitLLM" /\ step'.action = <<<<>>>>) => dispatches' = dispatches
        /\ (pc = "awaitLLM" /\ pc' = "afterLoop") => dispatches' = dispatches
      ]_vars

\* a dispatch with an empty action input has happened
C10_Witness ==
    /\ pc = "awaitTool"
    /\ step.action = <<<<"calculator">>>>
    /\ step.actionInput = <<<<>>>>
    /\ dispatches = << <<<<"calculator">>, <<>>>> >>

\* the stub's script is k-1 action responses followed by a final answer
StubbedRun(k, names, inps, answer) ==
    /\ Len(script) >= k
    /\ \A i \in 1..(k - 1) : script[i] = StubAction(names[i], inps[i])
    /\ script[k] = StubFinal(answer)

C7_DetectionsAgree == pc = "parsed" => output = step.observation

\* the lines the parser scans: up to the first Final Answer line
RECURSIVE UpToFinal(_)
UpToFinal(lines) ==
    IF lines = <<>> THEN <<>>
    ELSE IF Head(lines)[1] = FA THEN <<Head(lines)>>
    ELSE <<Head(lines)>> \o UpToFinal(Tail(lines))

ScannedLines(text) == UpToFinal(ResponseLines(text))

HasScanned(text, p) ==
    \E i \in 1..Len(ScannedLines(text)) : ScannedLines(text)[i][1] = p

FirstValue(text, p) ==
    LET ls == ScannedLines(text)
        i  == CHOOSE j \in 1..Len(ls) : ls[j][1] = p /\ \A k \in 1..(j - 1) : ls[k][1] # p
    IN  Trim(SubSeq(ls[i], 2, Len(ls[i])))

\* C8: of several lines with the same prefix among Thought:, Action: and Action
\* Input:, the first in top-to-bottom order sets the field.
C8_FirstLineWins ==
    pc = "parsed" =>
        /\ HasScanned(response, TH) => step.thought = FirstValue(response, TH)
        /\ HasScanned(response, AC) => step.action = <<FirstValue(response, AC)>>
        /\ HasScanned(response, AI) => step.actionInput = <<FirstValue(response, AI)>>

RelevantLines(text) == SelectSeq(ScannedLines(text), LAMBDA l : l[1] \in Prefixes)

\* C9: the parsed step is the one parsed from the prefixed lines at or before the
\* first Final Answer line alone: unprefixed lines and lines after that line have
\* no effect, and a text without such lines gives the empty step; the text
\* 'Thought: X / Action: foo / Action Input: bar' gives thought X, action foo,
\* actionInput bar.
C9_OnlyRelevantLinesCount ==
    pc = "parsed" =>
        /\ step = parseAgentResponse(Join(RelevantLines(response), <<NL>>))
        /\ RelevantLines(response) = <<>> => step = EmptyStep
        /\ response = <<TH, SP, "X", NL, AC, SP, "foo", NL, AI, SP, "bar">> =>
              step = [thought |-> <<"X">>, action |-> <<<<"foo">>>>,
                      actionInput |-> <<<<"bar">>>>, observation |-> <<>>]

\* an unprefixed line was dropped and a line after the Final Answer line ignored
C9_Witness ==
    /\ pc = "parsed"
    /\ response = <<"x", NL, FA, NL, TH>>
    /\ step = [EmptyStep EXCEPT !.observation = <<<<>>>>]

IsPrefixOf(s, t) == Len(s) <= Len(t) /\ SubSeq(t, 1, Len(s)) = s

EndsWith(s, t) == Len(t) <= Len(s) /\ SubSeq(s, Len(s) - Len(t) + 1, Len(s)) = t

\* a turn of the shell has ended before, with an answer or with an error
TurnEndedBefore == chat.printed # <<>> /\ chat.printed[1] \in {"Agent: ", "Error: "}

\* C11: within the chat session at most one completion call or tool invocation
\* is outstanding at any time; a completion call starts only when the one before
\* it and its tool invocation have settled, and the shell takes up a line only
\* when the turn before has returned or thrown and nothing is outstanding.
C11_OneOperationAtATime ==
    [][ /\ Len(pending') <= 1
        /\ (llmCalls' = llmCalls + 1) => (pending = <<>> /\ pc = "loop")
        /\ (chat'.at = "turn" /\ chat.at # "turn") => (pending = <<>> /\ pc = "idle")
        /\ (pc = "idle" /\ pc' # "idle") => (pending = <<>> /\ chat.at = "turn")
      ]_vars

C11_Witness ==
    /\ TurnEndedBefore
    /\ pc = "awaitTool"
    /\ pending = <<"tool">>
    /\ llmCalls = 2

\* the spellings of the exit words
ExitSpellings == {"quit", "QUIT", "Quit", "exit", "EXIT", "bye", "Bye"}

\* C12: an error thrown during a turn is caught and printed, and the shell asks
\* for the next line; once started the shell runs on, whatever its turns did,
\* until an exit word is typed.
C12_ErrorsDoNotEndTheShell ==
    [][ /\ (chat.at = "turn" /\ pc = "thrown") =>
              /\ chat'.at = "asking"
              /\ chat'.printed = <<"Error: ">> \o failure[1]
              /\ pc' = "idle"
        /\ chat.at \in {"asking", "turn"} => chat'.at \in {"asking", "turn", "closed"}
        /\ (chat'.at = "closed" /\ chat.at # "closed") =>
              /\ chat.at = "asking"
              /\ \E i \in 1..Len(chat'.line) : chat'.line[i] \in ExitSpellings
      ]_vars

C12_Witness ==
    /\ chat.at = "turn"
    /\ pc = "returned"
    /\ chat.printed # <<>>
    /\ chat.printed[1] = "Error: "

\* an exit word with nothing but white space around it
TypedExit(line) ==
    \E i \in 1..Len(line) :
        /\ line[i] \in ExitSpellings
        /\ \A j \in 1..Len(line) : j # i => IsSpace(line[j])

\* C13: a line that is an exit word once trimmed and lower-cased ends the shell
\* and starts no turn; every other line, the empty one too, is passed to invoke
\* whole and untrimmed, once.
C13_ExitWordsAndWholeLines ==
    [][ /\ (chat.at = "asking" /\ chat'.at # "asking") =>
              IF TypedExit(chat'.line)
              THEN chat'.at = "closed" /\ pc' = "idle" /\ llmCalls' = llmCalls
              ELSE chat'.at = "turn"
        /\ (pc = "idle" /\ pc' # "idle") =>
              /\ chat.at = "turn"
              /\ ~TypedExit(chat.line)
              /\ input' = chat.line
              /\ pc' = "loop"
        /\ (chat.at = "turn" /\ pc # "idle" /\ pc' = "idle") => chat'.at # "turn"
        /\ chat.at = "closed" => chat'.at = "closed" /\ pc' = "idle"
      ]_vars

C13_Witness ==
    /\ chat.at = "closed"
    /\ chat.line = <<SP, "EXIT">>
    /\ input = <<SP, "What time is it?", SP>>
    /\ output # <<>>

\* C14: the first prompt of a turn is built with an empty scratchpad, whatever
\* the turns before did; within a turn the scratchpad only grows, each prompt
\* being a prefix of the next.
C14_ScratchpadPerTurn ==
    [][ /\ (llmCalls' = llmCalls + 1 /\ llmCalls = 0) =>
              /\ scratchpad = <<>>
              /\ EndsWith(prompt', <<"Question: ">> \o input \o <<NL, TH, SP>>)
        /\ (llmCalls' = llmCalls + 1 /\ llmCalls > 0) =>
              /\ IsPrefixOf(prompt, prompt')
              /\ EndsWith(prompt', <<NL, TH, SP>> \o scratchpad)
        /\ pc \in {"loop", "awaitLLM", "awaitTool", "afterLoop"} =>
              IsPrefixOf(scratchpad, scratchpad')
      ]_vars

C14_Witness ==
    /\ chat.printed # <<>>
    /\ chat.printed[1] = "Error: "
    /\ pc = "awaitLLM"
    /\ llmCalls = 2
    /\ scratchpad # <<>>

\* C15: invoke called twice with the same input, against a client that is a
\* function of the prompt and tools that are functions of their input, sends the
\* same prompts, makes the same tool calls and ends the same way: the second run
\* repeats the first at every point, and nothing of the first run changes it.
C15_SecondRunRepeatsFirst ==
    twice.run = 2 =>
        /\ IsPrefixOf(twice.prompts, twice.first.prompts)
        /\ pc # "idle" => IsPrefixOf(toolCalls, twice.first.toolCalls)
        /\ (pc \in {"returned", "thrown"} /\ Noted) =>
              /\ twice.prompts = twice.first.prompts
              /\ toolCalls = twice.first.toolCalls
              /\ output = twice.first.output
              /\ failure = twice.first.failure

C15_Witness ==
    /\ twice.run = 2
    /\ pc = "returned"
    /\ Len(twice.prompts) >= 2
    /\ toolCalls # <<>>
    /\ output = twice.first.output

\* the calculator was applied to an expression
CalculatorRan == pc = "ran" /\ toolRun.name = <<"calculator">> /\ toolRun.result # <<>>

\* the characters the calculator is said to accept
AcceptedChars ==
    {"0", "1", "2", "3", "4", "5", "6", "7", "8", "9", "+", "-", "*", "/", ".", "(", ")", " "}

HasOtherChar(e) == \E i \in 1..Len(e) : e[i] \notin AcceptedChars

IsNumeral(s) ==
    /\ s # <<>>
    /\ \A i \in 1..Len(s) : IsDigit(s[i]) \/ (i = 1 /\ s[i] = "-" /\ Len(s) > 1)

Operands == {<<0, <<"0">>>>, <<2, <<"2">>>>, <<3, <<"3">>>>, <<15, <<"1", "5">>>>,
             <<22, <<"2", "2">>>>, <<23, <<"2", "3">>>>}

SmallOperands == {<<0, <<"0">>>>, <<2, <<"2">>>>, <<3, <<"3">>>>}

Operators == {"+", "-", "*"}

Gaps == {<<>>, <<SP>>}

Applied(op, a, b) == CASE op = "+" -> a + b [] op = "-" -> a - b [] op = "*" -> a * b

\* a op b with the usual reading
BinaryValue(e) ==
    { Applied(op, a[1], b[1]) :
        <<a, op, b>> \in { t \in Operands \X Operators \X Operands :
                              \E g \in Gaps : e = t[1][2] \o g \o <<t[2]>> \o g \o t[3][2] } }

\* a op1 b op2 c with the usual reading: * before + and -, else left to right
TernaryValue(e) ==
    { IF t[4] = "*" /\ t[2] # "*"
      THEN Applied(t[2], t[1][1], Applied(t[4], t[3][1], t[5][1]))
      ELSE Applied(t[4], Applied(t[2], t[1][1], t[3][1]), t[5][1]) :
        t \in { u \in SmallOperands \X Operators \X SmallOperands \X Operators
                           \X SmallOperands :
                  e = u[1][2] \o <<u[2]>> \o u[3][2] \o <<u[4]>> \o u[5][2] } }

\* text that is no expression: nothing, or an operator or bracket left open
LeftOpen(e) ==
    \/ e = <<>>
    \/ e[Len(e)] \in {"+", "-", "*", "("}
    \/ e[1] \in {"*", ")"}

WeatherObserved ==
    /\ chat.at = "turn"
    /\ pc = "loop"
    /\ step.action = << <<"weather">> >>
    /\ step.actionInput # <<>>
    /\ step.observation # <<>>

\* C18: the weather tool called with an empty input, as the loop calls it for an
\* "Action Input:" line without text, answers for the default city New York;
\* called with a city it answers for that city.
C18_DefaultCity ==
    WeatherObserved =>
        IF step.actionInput[1] = <<>>
        THEN Contains(step.observation[1], <<"New York">>)
        ELSE Contains(step.observation[1], step.actionInput[1])

\* the request failed: no connection, or a status outside 200..299
RequestFailed(reply) == ~reply.reachable \/ reply.status < 200 \/ reply.status > 299

\* C19: generate sends one request per call and none again; a completion call
\* that fails ends the turn with its error: invoke throws it, makes no further
\* completion call and no tool call, and the shell prints it and asks for the
\* next line.
C19_FailedCallEndsTurn ==
    [][ /\ net'.sent = net'.calls
        /\ pc' \in {"awaitLLM", "awaitTool", "afterLoop"} => net'.calls = llmCalls'
        /\ \A reply \in Replies :
              (ChatReply(reply) /\ RequestFailed(reply)) =>
                  /\ pc' = "thrown"
                  /\ failure' # <<>>
                  /\ pending' = <<>>
                  /\ llmCalls' = llmCalls
                  /\ toolCalls' = toolCalls
        /\ pc = "thrown" =>
              /\ chat'.at = "asking"
              /\ chat'.printed = <<"Error: ">> \o failure[1]
              /\ net'.sent = net.sent
              /\ llmCalls' = llmCalls
              /\ toolCalls' = toolCalls
      ]_vars

C19_Witness ==
    /\ pc = "thrown"
    /\ llmCalls = 2
    /\ net.sent = 2
    /\ toolCalls # <<>>
    /\ net.settled # <<>>
    /\ ~net.settled[1].reply.reachable

\* a payload generate can return the completion of
GoodReply(reply) ==
    /\ reply.reachable
    /\ reply.status \in 200..299
    /\ reply.body = "object"
    /\ reply.response.type = "string"

\* C20: generate returns a completion only for a reachable endpoint, a success
\* status and a payload with a string in its response field; for every other
\* reply it fails, and what it returns is never anything but a string.
C20_StringOrFailure ==
    net.settled # <<>> =>
        LET reply == net.settled[1].reply
            result == net.settled[1].result
        IN  /\ GoodReply(reply) <=> ~result.threw
            /\ ~result.threw => result.value = reply.response /\ result.value.type = "string"

\* the iteration that has just ended dispatched a tool
DispatchedLast == pc = "loop" /\ iteration > 0 /\ ShouldDispatch(step) /\ step.observation # <<>>

\* C21: an iteration that dispatches a tool makes the scratchpad grow by the phrase
\* "I need to use the <action> tool." and the block "Action: <action>", "Action
\* Input: <actionInput>", "Observation: <observation>", each on a line of its own,
\* ending with "Thought: ", and by nothing of the thought parsed in that iteration,
\* whether there was one or not; the next completion call's prompt ends with that
\* scratchpad, so it holds the observation.
C21_DispatchBlockOnScratchpad ==
    [][ /\ (iteration' = iteration + 1 /\ ShouldDispatch(step')) =>
              /\ dispatches' # <<>>
              /\ Last(dispatches') = <<step'.action[1], step'.actionInput[1]>>
              /\ step'.observation # <<>>
              /\ scratchpad' = scratchpad
                    \o <<"I", " need to use the ">> \o step'.action[1] \o <<" tool.", NL>>
                    \o <<AC, SP>> \o step'.action[1] \o <<NL>>
                    \o <<AI, SP>> \o step'.actionInput[1] \o <<NL>>
                    \o <<OBS, SP>> \o step'.observation[1] \o <<NL>>
                    \o <<TH, SP>>
        /\ (DispatchedLast /\ pc' = "awaitLLM") =>
              /\ EndsWith(prompt', scratchpad)
              /\ EndsWith(prompt', <<OBS, SP>> \o step.observation[1] \o <<NL, TH, SP>>)
      ]_vars

\* a dispatch whose completion had a thought: the scratchpad holds the block and
\* not the thought
C21_Witness ==
    /\ DispatchedLast
    /\ iteration = 1
    /\ step.thought = <<"x">>
    /\ step.action = <<<<"calculator">>>>
    /\ step.observation = <<<<"345">>>>
    /\ scratchpad = <<"I", " need to use the ", "calculator", " tool.", NL,
                      AC, SP, "calculator", NL, AI, SP, "1", NL, OBS, SP, "345", NL, TH, SP>>

\* the step parsed from a completion has no action the loop would dispatch
NoDispatchableAction(st) ==
    \/ st.action = <<>>
    \/ st.action = <<<<>>>>
    \/ st.actionInput = <<>>

\* C22: an iteration whose completion gives no final answer and no dispatchable
\* action dispatches and invokes no tool, appends to the scratchpad the parsed
\* thought and the end of its line and nothing else of the completion (the line
\* end alone when there is no Thought line), and goes on iterating with the
\* iteration counter advanced by one.
C22_ThoughtOnlyIteration ==
    [][ (/\ pc = "awaitLLM"
         /\ pc' # "thrown"
         /\ FinalAnswerMatch(response') = <<>>
         /\ NoDispatchableAction(parseAgentResponse(response'))) =>
            /\ pc' = "loop"
            /\ iteration' = iteration + 1
            /\ dispatches' = dispatches
            /\ toolCalls' = toolCalls
            /\ "tool" \notin {pending'[i] : i \in 1..Len(pending')}
            /\ scratchpad' = scratchpad \o parseAgentResponse(response').thought \o <<NL>>
            /\ (~HasLine(response', TH)) => scratchpad' = scratchpad \o <<NL>>
            /\ UNCHANGED <<maxIterations, input, finalAnswer, llmCalls, output, failure>>
      ]_vars

\* two such iterations, the first with no Thought line, the second with one that
\* came with an action and no input
C22_Witness ==
    /\ pc = "loop"
    /\ iteration = 2
    /\ dispatches = <<>>
    /\ scratchpad = <<NL, "x", NL>>
    /\ step.thought = <<"x">>
    /\ step.action = <<<<"calculator">>>>
    /\ step.actionInput = <<>>

Max(a, b) == IF a >= b THEN a ELSE b

\* a completion call of the current iteration has been made
CalledThisIteration == pc \in {"awaitLLM", "awaitTool"}

\* the iteration that ended last was the last one allowed, and it called a
\* registered tool
ToolInLastIteration ==
    /\ pc \in {"loop", "afterLoop", "returned"}
    /\ maxIterations > 0
    /\ iteration = maxIterations
    /\ ShouldDispatch(step)
    /\ step.action[1] \in RegisteredNames

\* C23: in every state of a turn the tool invocations are at most as many as the
\* completion calls, which are at most max(maxIterations, 0); each iteration makes
\* exactly one completion call and at most one tool invocation; with
\* maxIterations <= 0 the turn makes no completion call and returns the
\* exhaustion message; a tool requested in the last allowed iteration is invoked
\* all the same, and its observation goes into no prompt.
C23_CallCounts ==
    /\ Len(toolCalls) <= llmCalls
    /\ llmCalls <= Max(maxIterations, 0)
    /\ pc = "loop" => llmCalls = iteration /\ Len(toolCalls) <= iteration
    /\ CalledThisIteration => llmCalls = iteration + 1 /\ Len(toolCalls) <= iteration + 1
    /\ pc = "awaitLLM" => Len(toolCalls) <= iteration
    /\ pc \in {"afterLoop", "returned", "thrown"} =>
          /\ llmCalls \in {iteration, iteration + 1}
          /\ Len(toolCalls) <= iteration
    /\ Len(toolCalls) <= Len(dispatches)
    /\ Len(dispatches) <= llmCalls
    /\ maxIterations <= 0 =>
          /\ llmCalls = 0
          /\ toolCalls = <<>>
          /\ pc \notin {"awaitLLM", "awaitTool", "thrown"}
          /\ pc = "returned" =>
                output = <<<<"I couldn't complete the task within the maximum iterations.">>>>
    /\ ToolInLastIteration =>
          /\ llmCalls = maxIterations
          /\ Len(toolCalls) >= 1
          /\ Last(toolCalls) = <<step.action[1], step.actionInput[1]>>
          /\ step.observation # <<>>
          /\ EndsWith(scratchpad, <<OBS, SP>> \o step.observation[1] \o <<NL, TH, SP>>)
          /\ Len(prompt) < Len(createPrompt(input, scratchpad))
          /\ pc = "returned" =>
                output = <<<<"I couldn't complete the task within the maximum iterations.">>>>

\* a turn of three iterations, each of which invoked a tool, has returned
C23_Witness ==
    /\ ToolInLastIteration
    /\ pc = "returned"
    /\ maxIterations = 3
    /\ llmCalls = 3
    /\ Len(toolCalls) = 3
    /\ output = <<ExhaustedMessage>>

\* the shell of AgentChat.start has been started
ShellStarted == chat.at \in {"asking", "turn", "closed"}

\* a turn of the agent is running or has run
TurnTouched ==
    \/ pc # "idle"
    \/ llmCalls # 0
    \/ input # <<>>
    \/ output # <<>>
    \/ failure # <<>>

\* the one completion call made so far has settled, and generate returned
ProbeSucceeded ==
    /\ net.calls = 1
    /\ net.sent = 1
    /\ ~net.inFlight
    /\ net.settled # <<>>
    /\ ~net.settled[1].result.threw

\* C24: main starts the chat shell, and with it the reading of lines and the turns
\* of the agent, only after its one probe completion call has returned without an
\* error; when the probe fails main reports that it could not connect and
\* returns: no shell, no turn, and no completion call after the probe.
C24_ShellOnlyAfterProbe ==
    [][ /\ (~ShellStarted /\ ShellStarted') =>
              /\ chat.at = "probing"
              /\ chat'.at = "asking"
              /\ chat'.printed = <<"Local Agent Ready! Type 'quit' to exit.">>
              /\ ProbeSucceeded'
        /\ ~ShellStarted' => /\ ~TurnTouched'
                             /\ chat'.line = <<>>
                             /\ net'.calls <= 1
        /\ chat'.line # chat.line => ShellStarted
        /\ (chat.at = "main") => chat'.at = "probing" /\ net'.calls = 1 /\ net'.inFlight
        /\ (chat.at = "probing" /\ chat'.at # "probing") =>
              /\ net'.settled # <<>>
              /\ IF net'.settled[1].result.threw
                 THEN /\ chat'.at = "exited"
                      /\ IsPrefixOf(<<"Could not connect to Ollama. ", "Error: ">>,
                                    chat'.printed)
                      /\ chat'.printed =
                            <<"Could not connect to Ollama. ", "Error: ">>
                                \o net'.settled[1].result.error
                 ELSE chat'.at = "asking"
        /\ chat.at # "exited"
      ]_vars

\* the probe met a server that answered with an error status: main has returned
C24_Witness ==
    /\ chat.at = "exited"
    /\ net.calls = 1
    /\ ~net.inFlight
    /\ net.settled[1].reply.status = 500
    /\ chat.printed = <<"Could not connect to Ollama. ", "Error: ", "Error: ",
                        "HTTP error! status: ", "5", "0", "0">>
    /\ ~TurnTouched
    /\ pending = <<>>

====
